---------------------------- MODULE Spec2Model ----------------------------
(***************************************************************************)
(* State-machine model of the ABCI application of aleo_lambda_blockchain   *)
(* (src/src/blockchain/application.rs) and of the Transaction type it      *)
(* consumes (src/src/lib/transaction.rs).                                  *)
(*                                                                         *)
(* The hooks are pure operators from an application state (record store,   *)
(* program store, validator set, height file) and a request to the next    *)
(* application state and a response; the actions of the specification     *)
(* apply them.  RecordStore, ProgramStore and ValidatorSet live in other   *)
(* modules of the crate: their operations follow the design document, and  *)
(* where test_abci_hooks pins a behaviour of the record store, the test.   *)
(***************************************************************************)
EXTENDS Integers, Sequences, FiniteSets, TLC

(***************************************************************************)
(* Bounds of the model.                                                    *)
(***************************************************************************)
\* blocks committed before the model stops opening new ones
MaxHeight == 2
\* width of a machine word of the model (u64 / i64 of the source)
WordBits == 8

(***************************************************************************)
(* Values.                                                                 *)
(***************************************************************************)
\* Option::None for strings and for the validator of an execution
None == "none"

\* the height file is absent (std::fs::read fails)
Absent == -1

\* process-level outcome of a hook that panicked (expect / unwrap)
Aborted == 2

\* "token" is the id of a program that nobody deploys
ProgramIds == {"credits", "records", "token"}

ValidatorIds == {"V1", "V2"}

\* commitments: the record that mint outputs, the record of the genesis
\* state, and the record that the credits transitions output
C1 == 1
G == 2
C3 == 3

\* serial numbers: of the record that mint outputs and of the genesis record
S1 == 11
S2 == 12

\* the commitment of the record that has serial number sn
CommitmentOf(sn) == sn - 10

(***************************************************************************)
(* Transitions and transactions (lib/transaction.rs, vm::Transition).      *)
(* proof is the version of the verifying keys the proof verifies against   *)
(* (0: against none).  amount / stake_outputs model outputs 2 and 3 of a   *)
(* credits stake or unstake transition.                                    *)
(***************************************************************************)
Transition(p, f, sns, outs, fee, proof, amount, so) ==
    [program_id |-> p, function_name |-> f, serial_numbers |-> sns,
     outputs |-> outs, fee |-> fee, proof |-> proof,
     amount |-> amount, stake_outputs |-> so]

tMint       == Transition("records", "mint", << >>, <<C1>>, 0, 1, 0, FALSE)
tConsume    == Transition("records", "consume", <<S1>>, << >>, 0, 1, 0, FALSE)
tConsumeTwo == Transition("records", "consume_two", <<S1, S1>>, << >>, 0, 1, 0, FALSE)
tFee        == Transition("credits", "fee", <<S2>>, <<C3>>, 1, 1, 0, FALSE)
tSplit      == Transition("credits", "split", <<S2>>, <<C3, C1>>, 0, 1, 0, FALSE)
tStake      == Transition("credits", "stake", <<S2>>, <<C3>>, 0, 1, 1, TRUE)
tUnstake    == Transition("credits", "unstake", <<S1>>, <<C3>>, 0, 1, 1, TRUE)
tBadProof   == Transition("credits", "transfer", <<S2>>, <<C3>>, 0, 0, 0, FALSE)
\* a fee transition of a program that the program store does not hold
tTokenFee   == Transition("token", "fee", <<S2>>, <<C3>>, 1, 1, 0, FALSE)
\* a transition whose outputs hold more credits than its inputs: fee() < 0
tNegativeFee == Transition("records", "mint", <<S1>>, <<C1>>, 0 - 1, 1, 0, FALSE)

\* Transaction::Deployment { id, program, verifying_keys, fee }
Deployment(id, program, keys, ok, fee) ==
    [kind |-> "Deployment", id |-> id, program |-> program,
     verifying_keys |-> keys, deploy_ok |-> ok, fee |-> fee,
     transitions |-> << >>, validator |-> None]

\* Transaction::Execution { id, transitions, validator }
Execution(id, ts, validator) ==
    [kind |-> "Execution", id |-> id, program |-> None,
     verifying_keys |-> 0, deploy_ok |-> FALSE, fee |-> << >>,
     transitions |-> ts, validator |-> validator]

\* request bytes that bincode::deserialize does not decode to a Transaction
Malformed(id) ==
    [kind |-> "Malformed", id |-> id, program |-> None,
     verifying_keys |-> 0, deploy_ok |-> FALSE, fee |-> << >>,
     transitions |-> << >>, validator |-> None]

\* bincode::deserialize(&request.tx): whether it returns Ok
deserialize(bytes) == bytes.kind # "Malformed"

\* the transactions the hooks are called with; a transaction's id is its
\* place in the pool
TxPool ==
    << Deployment(1, "records", 1, TRUE, << >>),
       Deployment(2, "records", 2, TRUE, << >>),
       Deployment(3, "records", 1, TRUE, <<tFee>>),
       Execution(4, <<tMint>>, None),
       Execution(5, <<tConsume>>, None),
       Execution(6, <<tConsumeTwo>>, None),
       Execution(7, <<tFee>>, None),
       Execution(8, <<tSplit>>, None),
       Execution(9, <<tStake>>, "V1"),
       Execution(10, <<tUnstake>>, "V1"),
       Execution(11, << >>, None),
       Execution(12, <<tBadProof>>, None),
       Deployment(13, "records", 1, TRUE, <<tTokenFee>>),
       Execution(14, <<tNegativeFee>>, None),
       Malformed(15) >>

TxIds == 1..Len(TxPool)

\* Transaction::id
id(tx) == tx.id

\* Transaction::transitions
transitions(tx) ==
    IF tx.kind = "Deployment" THEN tx.fee ELSE tx.transitions

RECURSIVE Flatten(_)
\* flat_map over a sequence of sequences
Flatten(ss) == IF ss = << >> THEN << >> ELSE Head(ss) \o Flatten(Tail(ss))

\* Transaction::record_serial_numbers
record_serial_numbers(tx) ==
    Flatten([i \in 1..Len(transitions(tx)) |-> transitions(tx)[i].serial_numbers])

\* Transaction::output_records (commitments; the ciphertext is opaque)
output_records(tx) ==
    Flatten([i \in 1..Len(transitions(tx)) |-> transitions(tx)[i].outputs])

RECURSIVE SumFees(_)
\* fold(0, |acc, transition| acc + transition.fee())
SumFees(ts) == IF ts = << >> THEN 0 ELSE Head(ts).fee + SumFees(Tail(ts))

\* Transaction::fees
fees(tx) ==
    IF tx.kind = "Deployment"
    THEN (IF tx.fee = << >> THEN 0 ELSE tx.fee[1].fee)
    ELSE SumFees(tx.transitions)

\* the stake a credits stake / unstake transition yields
StakeOf(validator, t) ==
    [validator |-> validator,
     amount |-> IF t.function_name = "stake" THEN t.amount ELSE 0 - t.amount]

\* whether a transition is one stake_updates extracts an update from
IsStaking(t) ==
    /\ t.program_id = "credits"
    /\ t.function_name \in {"stake", "unstake"}

RECURSIVE StakeList(_, _)
\* the loop of stake_updates: ok is FALSE when extract_output(2) fails
StakeList(validator, ts) ==
    IF ts = << >> THEN [ok |-> TRUE, updates |-> << >>]
    ELSE IF ~IsStaking(Head(ts)) THEN StakeList(validator, Tail(ts))
    ELSE IF ~Head(ts).stake_outputs THEN [ok |-> FALSE, updates |-> << >>]
    ELSE LET rest == StakeList(validator, Tail(ts))
         IN  [ok |-> rest.ok,
              updates |-> IF rest.ok
                          THEN <<StakeOf(validator, Head(ts))>> \o rest.updates
                          ELSE << >>]

\* Transaction::stake_updates
stake_updates(tx) ==
    IF tx.kind = "Execution" /\ tx.validator # None
    THEN StakeList(tx.validator, tx.transitions)
    ELSE [ok |-> TRUE, updates |-> << >>]

(***************************************************************************)
(* The application state: the fields of SnarkVMApp (records, programs,     *)
(* validators) with the state of the three stores laid out flat, the       *)
(* height file, and whether the process has aborted.                       *)
(*   records, spent               committed record store                   *)
(*   pending_add, pending_spend   its staging sets                         *)
(*   programs                     program id -> verifying keys (0: none)   *)
(*   validators, pending, fees, proposer, voters, vs_height                *)
(*                                the validator set                        *)
(*   validators_file              the validators last persisted            *)
(*   records_failing              whether the reads of the record store    *)
(*                                fail (is_unspent returns Err)            *)
(***************************************************************************)
NoVotes == [v \in {} |-> 0]

\* SnarkVMApp::new in a fresh working directory: empty stores holding the
\* built-in credits program, no validator, no height file
NewApp ==
    [records |-> {}, spent |-> {}, pending_add |-> {}, pending_spend |-> {},
     programs |-> [p \in ProgramIds |-> IF p = "credits" THEN 1 ELSE 0],
     validators |-> [v \in ValidatorIds |-> 0],
     pending |-> [v \in ValidatorIds |-> 0],
     fees |-> 0, proposer |-> None, voters |-> NoVotes, vs_height |-> 0,
     validators_file |-> [v \in ValidatorIds |-> 0],
     records_failing |-> FALSE, height_file |-> Absent, crashed |-> FALSE]

\* the record store, the program store and the validator set of a state
RS(a) == <<a.records, a.spent, a.pending_add, a.pending_spend>>
PS(a) == a.programs
VS(a) == <<a.validators, a.pending, a.fees, a.proposer, a.voters, a.vs_height>>

(***************************************************************************)
(* RecordStore.  Spends are keyed by serial number and adds by commitment. *)
(* test_abci_hooks consumes the output of a mint that was never delivered  *)
(* and asserts that check_tx and deliver_tx accept it: is_unspent and      *)
(* spend do not require the record to be held by the store.                *)
(***************************************************************************)
\* RecordStore::is_unspent
records_is_unspent(a, sn) == sn \notin a.spent /\ sn \notin a.pending_spend

\* the Result of RecordStore::is_unspent: Err while the reads of the store
\* fail
records_try_is_unspent(a, sn) ==
    IF a.records_failing THEN [ok |-> FALSE, value |-> FALSE]
    ELSE [ok |-> TRUE, value |-> records_is_unspent(a, sn)]

\* Result::unwrap_or
unwrap_or(result, default) == IF result.ok THEN result.value ELSE default

\* RecordStore::spend
records_spend(a, sn) ==
    IF sn \in a.spent \/ sn \in a.pending_spend
    THEN [ok |-> FALSE, app |-> a]
    ELSE [ok |-> TRUE, app |-> [a EXCEPT !.pending_spend = @ \cup {sn}]]

\* RecordStore::add
records_add(a, commitment) ==
    IF commitment \in a.records \/ commitment \in a.pending_add
    THEN [ok |-> FALSE, app |-> a]
    ELSE [ok |-> TRUE, app |-> [a EXCEPT !.pending_add = @ \cup {commitment}]]

\* RecordStore::commit
records_commit(a) ==
    [a EXCEPT !.spent = @ \cup a.pending_spend,
              !.records = @ \cup a.pending_add,
              !.pending_spend = {},
              !.pending_add = {}]

(***************************************************************************)
(* ProgramStore.                                                           *)
(***************************************************************************)
\* ProgramStore::exists
programs_exists(a, program_id) == a.programs[program_id] # 0

\* ProgramStore::get: the stored verifying keys, 0 for None
programs_get(a, program_id) == a.programs[program_id]

\* ProgramStore::add
programs_add(a, program_id, keys) ==
    IF a.programs[program_id] # 0
    THEN [ok |-> FALSE, app |-> a]
    ELSE [ok |-> TRUE, app |-> [a EXCEPT !.programs[program_id] = keys]]

(***************************************************************************)
(* ValidatorSet.                                                           *)
(***************************************************************************)
\* the credits minted with every block on top of the collected fees
Coinbase == 2

\* ValidatorSet::replace
validators_replace(a, vals) ==
    [a EXCEPT !.validators = [v \in ValidatorIds |->
                                 IF v \in DOMAIN vals THEN vals[v] ELSE 0]]

\* ValidatorSet::begin_block
validators_begin_block(a, proposer, votes, height) ==
    [a EXCEPT !.proposer = proposer, !.voters = votes, !.vs_height = height]

\* ValidatorSet::collect
validators_collect(a, fee) == [a EXCEPT !.fees = @ + fee]

\* ValidatorSet::apply
validators_apply(a, update) ==
    [a EXCEPT !.pending[update.validator] = @ + update.amount]

\* ValidatorSet::validate
validators_validate(a, update) ==
    \/ update.amount >= 0
    \/ /\ a.validators[update.validator] > 0
       /\ a.validators[update.validator] + a.pending[update.validator]
            + update.amount >= 0

\* ValidatorSet::pending_updates: the validators whose power changes, each
\* with its new voting power
validators_pending_updates(a) ==
    {[pub_key |-> v, voting_power |-> a.validators[v] + a.pending[v]] :
        v \in {w \in ValidatorIds : a.pending[w] # 0}}

\* the commitment of the k-th reward record minted at a height
RewardCommitment(height, k) == 100 + 10 * height + k

\* the order in which block_rewards mints: the proposer, then the voters
Rewarded(a) ==
    <<a.proposer>> \o
    (IF "V1" \in DOMAIN a.voters THEN <<"V1">> ELSE << >>) \o
    (IF "V2" \in DOMAIN a.voters THEN <<"V2">> ELSE << >>)

RECURSIVE SumPower(_, _)
SumPower(votes, vs) ==
    IF vs = {} THEN 0
    ELSE LET v == CHOOSE w \in vs : TRUE
         IN  votes[v] + SumPower(votes, vs \ {v})

\* the credits of the k-th reward record: half of the pot (rounded down) is
\* split among the voters by recorded power, the proposer takes the rest
RewardGates(a, k) ==
    LET total == a.fees + Coinbase
        power == SumPower(a.voters, DOMAIN a.voters)
        share(v) == IF power = 0 THEN 0
                    ELSE ((total \div 2) * a.voters[v]) \div power
        voted == SumPower([v \in DOMAIN a.voters |-> share(v)], DOMAIN a.voters)
    IN  IF k = 1 THEN total - voted ELSE share(Rewarded(a)[k])

\* ValidatorSet::block_rewards: the (commitment, record) pairs it mints; a
\* record is its owner and its credits
validators_block_rewards(a) ==
    [k \in 1..Len(Rewarded(a)) |->
        [commitment |-> RewardCommitment(a.vs_height, k),
         owner |-> Rewarded(a)[k],
         gates |-> RewardGates(a, k)]]

\* what block_rewards leaves in the validator set: the fee pot is reset
validators_after_rewards(a) == [a EXCEPT !.fees = 0]

\* the first half of ValidatorSet::commit: pending updates are absorbed
\* into the live set
validators_absorb(a) ==
    [a EXCEPT !.validators = [v \in ValidatorIds |-> @[v] + a.pending[v]],
              !.pending = [v \in ValidatorIds |-> 0]]

\* ValidatorSet::commit: absorbs the pending updates and persists the set
validators_commit(a) ==
    [validators_absorb(a) EXCEPT !.validators_file = validators_absorb(a).validators]

(***************************************************************************)
(* HeightFile.                                                             *)
(***************************************************************************)
\* HeightFile::read_or_create: the file afterwards; the value returned is it
read_or_create(height_file) ==
    IF height_file = Absent THEN 0 ELSE height_file

\* an increment that leaves the height as it reads it
increment_stuck(height_file) ==
    IF height_file = Absent
    THEN [ok |-> FALSE, height |-> height_file]
    ELSE [ok |-> TRUE, height |-> height_file]

\* HeightFile::increment: std::fs::read(..).unwrap() panics without a file
increment(height_file) ==
    IF height_file = Absent
    THEN [ok |-> FALSE, height |-> height_file]
    ELSE [ok |-> TRUE, height |-> height_file + 1]

(***************************************************************************)
(* The private methods of SnarkVMApp.                                      *)
(***************************************************************************)
\* the first element of a sequence that occurs a second time in it
HasDuplicates(seq) ==
    \E i, j \in 1..Len(seq) : i < j /\ seq[i] = seq[j]

\* check_no_duplicate_records without its check
check_no_duplicate_records_skipped(tx) == TRUE

\* SnarkVMApp::check_no_duplicate_records: whether it returns Ok
check_no_duplicate_records(tx) ==
    ~HasDuplicates(record_serial_numbers(tx))

\* check_inputs_are_unspent consulting the committed spends only
check_inputs_are_unspent_committed(a, tx) ==
    LET serial_numbers == record_serial_numbers(tx)
    IN  ~\E i \in 1..Len(serial_numbers) : serial_numbers[i] \in a.spent

\* check_inputs_are_unspent requiring the record of each input to be in the
\* committed store
check_inputs_are_unspent_held(a, tx) ==
    LET serial_numbers == record_serial_numbers(tx)
    IN  ~\E i \in 1..Len(serial_numbers) :
            \/ ~records_is_unspent(a, serial_numbers[i])
            \/ CommitmentOf(serial_numbers[i]) \notin a.records

\* check_inputs_are_unspent that lets every input pass
check_inputs_are_unspent_skipped(a, tx) == TRUE

\* check_inputs_are_unspent taking an Err of is_unspent for spent
check_inputs_are_unspent_closed(a, tx) ==
    LET serial_numbers == record_serial_numbers(tx)
    IN  ~\E i \in 1..Len(serial_numbers) :
            ~unwrap_or(records_try_is_unspent(a, serial_numbers[i]), FALSE)

\* SnarkVMApp::check_inputs_are_unspent: whether it returns Ok; an Err of
\* is_unspent counts as unspent (unwrap_or(true))
check_inputs_are_unspent(a, tx) ==
    LET serial_numbers == record_serial_numbers(tx)
    IN  ~\E i \in 1..Len(serial_numbers) :
            ~unwrap_or(records_try_is_unspent(a, serial_numbers[i]), TRUE)

\* vm::verify_execution: the proof verifies against these keys
verify_execution(transition, keys) == transition.proof = keys

\* vm::verify_deployment
verify_deployment(tx) == tx.deploy_ok

\* verify_transition that lets a transition of an unknown program pass
verify_transition_lenient(a, transition) ==
    LET stored_keys == programs_get(a, transition.program_id)
    IN  IF stored_keys # 0
        THEN verify_execution(transition, stored_keys)
        ELSE TRUE

\* SnarkVMApp::verify_transition: whether it returns Ok
verify_transition(a, transition) ==
    LET stored_keys == programs_get(a, transition.program_id)
    IN  IF stored_keys # 0
        THEN verify_execution(transition, stored_keys)
        ELSE FALSE

\* SnarkVMApp::validate_transaction: whether it returns Ok
validate_transaction(a, tx) ==
    IF tx.kind = "Deployment"
    THEN /\ ~programs_exists(a, tx.program)
         /\ \A i \in 1..Len(tx.fee) : verify_transition(a, tx.fee[i])
         /\ verify_deployment(tx)
    ELSE /\ tx.transitions # << >>
         /\ stake_updates(tx).ok
         /\ \A i \in 1..Len(stake_updates(tx).updates) :
                validators_validate(a, stake_updates(tx).updates[i])
         /\ \A i \in 1..Len(tx.transitions) :
                verify_transition(a, tx.transitions[i])

RECURSIVE ApplyAll(_, _)
\* for_each(|update| validator_set.apply(update))
ApplyAll(a, updates) ==
    IF updates = << >> THEN a
    ELSE ApplyAll(validators_apply(a, Head(updates)), Tail(updates))

\* transaction.fees() as u64: the two's complement reading of the i64, with
\* words of WordBits bits standing for the 64 of the source
as_u64(fee) == fee % (2 ^ WordBits)

\* SnarkVMApp::update_validators: the state it leaves (deliver_tx drops its
\* result)
update_validators(a, tx) ==
    LET collected == validators_collect(a, as_u64(fees(tx)))
    IN  IF stake_updates(tx).ok
        THEN ApplyAll(collected, stake_updates(tx).updates)
        ELSE collected

RECURSIVE SpendAll(_, _)
\* map(spend).find(is_err): spends in order and stops at the first error
SpendAll(a, sns) ==
    IF sns = << >> THEN [ok |-> TRUE, app |-> a]
    ELSE LET r == records_spend(a, Head(sns))
         IN  IF r.ok THEN SpendAll(r.app, Tail(sns)) ELSE r

\* spend_input_records that stages no spend
spend_input_records_unstaged(a, tx) == [ok |-> TRUE, app |-> a]

\* SnarkVMApp::spend_input_records
spend_input_records(a, tx) == SpendAll(a, record_serial_numbers(tx))

RECURSIVE AddAll(_, _)
\* map(add).find(is_err): adds in order and stops at the first error
AddAll(a, commitments) ==
    IF commitments = << >> THEN [ok |-> TRUE, app |-> a]
    ELSE LET r == records_add(a, Head(commitments))
         IN  IF r.ok THEN AddAll(r.app, Tail(commitments)) ELSE r

\* SnarkVMApp::add_output_records
add_output_records(a, tx) == AddAll(a, output_records(tx))

\* store_program that does not write the program
store_program_dropped(a, tx) == [ok |-> TRUE, app |-> a]

\* SnarkVMApp::store_program
store_program(a, tx) ==
    IF tx.kind = "Deployment"
    THEN programs_add(a, tx.program, tx.verifying_keys)
    ELSE [ok |-> TRUE, app |-> a]

(***************************************************************************)
(* The ABCI hooks.  Each yields the application state it leaves and its    *)
(* response: [hook, tx, code, log, events, updates, rewards, height,       *)
(* errors].  code is the response code, or Aborted when the hook panicked  *)
(* and no response was returned; log is the error of a response with code  *)
(* 1; errors are the stores whose failure the hook wrote to the error log  *)
(* (error!) and went on.                                                   *)
(***************************************************************************)
Response(hook, txid, code) ==
    [hook |-> hook, tx |-> txid, code |-> code, log |-> "", events |-> << >>,
     updates |-> {}, rewards |-> << >>, height |-> Absent, errors |-> {}]

\* a response with code: 1 and the error as log and info
Rejected(hook, txid, err) ==
    [Response(hook, txid, 1) EXCEPT !.log = err]

NoResponse == Response("none", 0, 0)

Abort(a, hook, txid) ==
    [app |-> [a EXCEPT !.crashed = TRUE], resp |-> Response(hook, txid, Aborted)]

\* genesis states init_chain is called with: whether app_state_bytes
\* decodes, the records and the validators
Genesis(valid, recs, vals) ==
    [valid |-> valid, records |-> recs, validators |-> vals]

GenesisStates ==
    { Genesis(TRUE, <<G>>, [v \in {"V1"} |-> 1]),
      Genesis(TRUE, <<G, G>>, [v \in {"V1"} |-> 1]),
      Genesis(FALSE, << >>, NoVotes) }

\* SnarkVMApp::init_chain
init_chain(a, state) ==
    IF ~state.valid THEN Abort(a, "init_chain", 0)
    ELSE LET added == AddAll(a, state.records)
         IN  IF ~added.ok THEN Abort(added.app, "init_chain", 0)
             ELSE [app |-> validators_replace(added.app, state.validators),
                   resp |-> Response("init_chain", 0, 0)]

\* SnarkVMApp::info
info(a) ==
    [app |-> [a EXCEPT !.height_file = read_or_create(a.height_file)],
     resp |-> [Response("info", 0, 0) EXCEPT
                  !.height = read_or_create(a.height_file)]]

Queries == {"GetRecords", "GetSpentSerialNumbers", "GetProgram", "undecodable"}

\* SnarkVMApp::query
query(a, q) ==
    [app |-> a,
     resp |-> IF q = "undecodable"
              THEN Rejected("query", 0, "Error running query")
              ELSE Response("query", 0, 0)]

\* the chain check_no_duplicate_records . check_inputs_are_unspent .
\* validate_transaction of check_tx and deliver_tx: the error of the first
\* that fails, "" when all three return Ok
validation(a, tx) ==
    IF ~check_no_duplicate_records(tx) THEN "duplicate"
    ELSE IF ~check_inputs_are_unspent(a, tx) THEN "unknown or already spent"
    ELSE IF ~validate_transaction(a, tx) THEN "verification failed"
    ELSE ""

\* check_tx that stages the spends of a transaction it accepts
check_tx_spending(a, tx) ==
    IF ~deserialize(tx) THEN Abort(a, "check_tx", id(tx))
    ELSE LET result == validation(a, tx)
         IN  IF result # ""
             THEN [app |-> a, resp |-> Rejected("check_tx", id(tx), result)]
             ELSE [app |-> spend_input_records(a, tx).app,
                   resp |-> Response("check_tx", id(tx), 0)]

\* check_tx that collects the fees of a transaction it accepts
check_tx_collecting(a, tx) ==
    IF ~deserialize(tx) THEN Abort(a, "check_tx", id(tx))
    ELSE LET result == validation(a, tx)
         IN  IF result # ""
             THEN [app |-> a, resp |-> Rejected("check_tx", id(tx), result)]
             ELSE [app |-> validators_collect(a, 1),
                   resp |-> Response("check_tx", id(tx), 0)]

\* SnarkVMApp::check_tx
check_tx(a, tx) ==
    IF ~deserialize(tx) THEN Abort(a, "check_tx", id(tx))
    ELSE LET result == validation(a, tx)
         IN  [app |-> a,
              resp |-> IF result # ""
                       THEN Rejected("check_tx", id(tx), result)
                       ELSE Response("check_tx", id(tx), 0)]

\* the votes of RequestBeginBlock.last_commit_info: validator is << >> when
\* the vote carries no validator payload
Vote(signed, validator) == [signed_last_block |-> signed, validator |-> validator]

Validator(address, power) == <<[address |-> address, power |-> power]>>

\* a filter_map that keeps every vote that carries a validator
Kept_unfiltered(votes) ==
    { i \in 1..Len(votes) : votes[i].validator # << >> }

\* the votes that the filter_map of begin_block keeps
Kept(votes) ==
    { i \in 1..Len(votes) :
        /\ votes[i].signed_last_block
        /\ votes[i].validator # << >>
        /\ ~(votes[i].validator[1].power < 0) }

\* collect(): the last kept vote of an address gives its power
VoterMap(votes) ==
    [addr \in {votes[i].validator[1].address : i \in Kept(votes)} |->
        LET last == CHOOSE i \in Kept(votes) :
                        /\ votes[i].validator[1].address = addr
                        /\ \A j \in Kept(votes) :
                              votes[j].validator[1].address = addr => j <= i
        IN  votes[last].validator[1].power]

\* last_commit_info.map(|info| info.votes...).unwrap_or_default()
VotesOf(last_commit_info) ==
    IF last_commit_info = << >> THEN << >> ELSE last_commit_info[1]

\* begin_block that keeps the voters of the block before
begin_block_sticky(a, request) ==
    IF ~request.header THEN Abort(a, "begin_block", 0)
    ELSE LET new == VoterMap(VotesOf(request.last_commit_info))
             votes == [v \in DOMAIN new \cup DOMAIN a.voters |->
                          IF v \in DOMAIN new THEN new[v] ELSE a.voters[v]]
         IN  [app |-> validators_begin_block(a, request.proposer, votes,
                                             request.height),
              resp |-> Response("begin_block", 0, 0)]

\* SnarkVMApp::begin_block; the request is [header, proposer, height,
\* last_commit_info]
begin_block(a, request) ==
    IF ~request.header THEN Abort(a, "begin_block", 0)
    ELSE [app |-> validators_begin_block(a, request.proposer,
                      VoterMap(VotesOf(request.last_commit_info)),
                      request.height),
          resp |-> Response("begin_block", 0, 0)]

\* the event of a delivered transaction, to query it by app.tx_id
index_event_unindexed(tx) ==
    [type |-> "app", key |-> "tx_id", value |-> id(tx), index |-> FALSE]

\* abci::Event { type: "app", attributes: [{ key: "tx_id", value, index }] }
index_event(tx) ==
    [type |-> "app", key |-> "tx_id", value |-> id(tx), index |-> TRUE]

\* deliver_tx that updates the validator set before it validates
deliver_tx_eager(a, tx) ==
    IF ~deserialize(tx) THEN Abort(a, "deliver_tx", id(tx))
    ELSE IF validation(update_validators(a, tx), tx) # ""
    THEN [app |-> update_validators(a, tx),
          resp |-> Rejected("deliver_tx", id(tx),
                            validation(update_validators(a, tx), tx))]
    ELSE LET updated == update_validators(a, tx)
             spent == spend_input_records(updated, tx)
             added == add_output_records(spent.app, tx)
             stored == store_program(added.app, tx)
         IN  IF ~spent.ok
             THEN [app |-> spent.app,
                   resp |-> Rejected("deliver_tx", id(tx), "spend failed")]
             ELSE IF ~added.ok
             THEN [app |-> added.app,
                   resp |-> Rejected("deliver_tx", id(tx), "add failed")]
             ELSE IF ~stored.ok
             THEN [app |-> stored.app,
                   resp |-> Rejected("deliver_tx", id(tx), "store failed")]
             ELSE [app |-> stored.app,
                   resp |-> [Response("deliver_tx", id(tx), 0) EXCEPT
                                !.events = <<index_event(tx)>>]]

\* SnarkVMApp::deliver_tx
deliver_tx(a, tx) ==
    IF ~deserialize(tx) THEN Abort(a, "deliver_tx", id(tx))
    ELSE IF validation(a, tx) # ""
    THEN [app |-> a, resp |-> Rejected("deliver_tx", id(tx), validation(a, tx))]
    ELSE LET updated == update_validators(a, tx)
             spent == spend_input_records(updated, tx)
             added == add_output_records(spent.app, tx)
             stored == store_program(added.app, tx)
         IN  IF ~spent.ok
             THEN [app |-> spent.app,
                   resp |-> Rejected("deliver_tx", id(tx), "spend failed")]
             ELSE IF ~added.ok
             THEN [app |-> added.app,
                   resp |-> Rejected("deliver_tx", id(tx), "add failed")]
             ELSE IF ~stored.ok
             THEN [app |-> stored.app,
                   resp |-> Rejected("deliver_tx", id(tx), "store failed")]
             ELSE [app |-> stored.app,
                   resp |-> [Response("deliver_tx", id(tx), 0) EXCEPT
                                !.events = <<index_event(tx)>>]]

\* SnarkVMApp::end_block
end_block(a) ==
    [app |-> a,
     resp |-> [Response("end_block", 0, 0) EXCEPT
                  !.updates = validators_pending_updates(a)]]

RECURSIVE AddRewards(_, _)
\* the loop of commit over block_rewards(): a failed add is logged
AddRewards(a, rewards) ==
    IF rewards = << >> THEN a
    ELSE AddRewards(records_add(a, Head(rewards).commitment).app, Tail(rewards))

\* what fails on the disk during a commit: records is whether
\* RecordStore::commit returns Err (the staging is left intact), validators
\* whether ValidatorSet::commit does (the set is not persisted)
Fault(records, validators) == [records |-> records, validators |-> validators]

NoFault == Fault(FALSE, FALSE)

Faults == {Fault(TRUE, FALSE), Fault(FALSE, TRUE), Fault(TRUE, TRUE)}

\* the failures that commit logs with error!
Logged(fault) ==
    (IF fault.records THEN {"records"} ELSE {}) \cup
    (IF fault.validators THEN {"validators"} ELSE {})

\* commit that aborts when the validator set cannot be persisted
commit_faulty_strict(a, fault) ==
    LET committed == IF fault.records THEN a ELSE records_commit(a)
        height == increment(committed.height_file)
        rewards == validators_block_rewards(committed)
        rewarded == AddRewards([committed EXCEPT !.height_file = height.height],
                               rewards)
        minted == validators_after_rewards(rewarded)
    IN  IF ~height.ok THEN Abort(committed, "commit", 0)
        ELSE IF fault.validators
        THEN [Abort(validators_absorb(minted), "commit", 0) EXCEPT
                 !.resp.errors = Logged(fault)]
        ELSE [app |-> validators_commit(minted),
              resp |-> [Response("commit", 0, 0) EXCEPT
                           !.rewards = rewards, !.errors = Logged(fault)]]

\* SnarkVMApp::commit, with what fails on the disk while it runs
commit_faulty(a, fault) ==
    LET committed == IF fault.records THEN a ELSE records_commit(a)
        height == increment(committed.height_file)
        rewards == validators_block_rewards(committed)
        rewarded == AddRewards([committed EXCEPT !.height_file = height.height],
                               rewards)
        minted == validators_after_rewards(rewarded)
    IN  IF ~height.ok THEN Abort(committed, "commit", 0)
        ELSE [app |-> IF fault.validators THEN validators_absorb(minted)
                      ELSE validators_commit(minted),
              resp |-> [Response("commit", 0, 0) EXCEPT
                           !.rewards = rewards, !.errors = Logged(fault)]]

\* SnarkVMApp::commit when the disk works
commit(a) == commit_faulty(a, NoFault)

\* where the process may stop inside commit
CrashPoints == {"after_records_commit", "after_increment", "after_rewards"}

\* SnarkVMApp::commit cut short: what the process leaves behind when it stops
\* at a point
commit_crashed(a, point) ==
    LET committed == records_commit(a)
        height == increment(committed.height_file)
        counted == [committed EXCEPT !.height_file = height.height]
        rewarded == AddRewards(counted, validators_block_rewards(committed))
    IN  IF point = "after_records_commit" \/ ~height.ok
        THEN Abort(committed, "commit", 0)
        ELSE IF point = "after_increment"
        THEN Abort(counted, "commit", 0)
        ELSE Abort(validators_after_rewards(rewarded), "commit", 0)

\* SnarkVMApp::new in the working directory of a process that stopped: the
\* stores are opened as they were persisted, their staging and the unsaved
\* part of the validator set are gone
restart(a) ==
    [a EXCEPT !.crashed = FALSE,
              !.pending_add = {}, !.pending_spend = {},
              !.validators = a.validators_file,
              !.pending = [v \in ValidatorIds |-> 0],
              !.fees = 0, !.proposer = None, !.voters = NoVotes,
              !.vs_height = 0]

(***************************************************************************)
(* The Mutex of the validator set: the lock operations of each hook, in    *)
(* the order in which the hook does them.  "lock" is                       *)
(* self.validators.lock().unwrap(), "unlock" the drop of its guard.        *)
(***************************************************************************)
\* one critical section: the guard is dropped at the end of the statement
\* or of the block that took it
Section == <<"lock", "unlock">>

\* validate_transaction whose guard outlives the method
validate_transaction_locks_held(tx) ==
    IF tx.kind = "Execution" /\ tx.transitions # << >> THEN <<"lock">>
    ELSE << >>

\* SnarkVMApp::validate_transaction: the arm of an Execution takes the lock
\* once its transitions are known not to be empty, and drops the guard at
\* its end, also when it leaves early with ?
validate_transaction_locks(tx) ==
    IF tx.kind = "Execution" /\ tx.transitions # << >> THEN Section
    ELSE << >>

\* SnarkVMApp::update_validators: the guard lives to the end of the method
update_validators_locks == Section

\* SnarkVMApp::check_tx: validate_transaction runs when the two checks
\* before it passed
check_tx_locks(a, tx) ==
    IF check_no_duplicate_records(tx) /\ check_inputs_are_unspent(a, tx)
    THEN validate_transaction_locks(tx)
    ELSE << >>

\* SnarkVMApp::deliver_tx: update_validators runs when validate_transaction
\* returned Ok
deliver_tx_locks(a, tx) ==
    IF check_no_duplicate_records(tx) /\ check_inputs_are_unspent(a, tx)
    THEN validate_transaction_locks(tx) \o
         (IF validate_transaction(a, tx) THEN update_validators_locks
          ELSE << >>)
    ELSE << >>

\* init_chain, begin_block: one statement each; end_block, commit: the guard
\* lives to the end of the hook
init_chain_locks == Section
begin_block_locks == Section
end_block_locks == Section
commit_locks == Section

(***************************************************************************)
(* The state machine.                                                      *)
(*   app       the application state of the node                           *)
(*   phase     where the consensus engine is: START (the node is up, the   *)
(*             handshake's info is still to come), NEW (before init_chain) *)
(*             and, per block, IDLE, OPEN, CLOSED, COMMITTED               *)
(*   resp      the response of the last hook that ran on the node          *)
(*   consumed  history: how often each serial number was an input of a     *)
(*             deliver_tx that returned code 0                             *)
(*   deployed  history: how many deliver_tx of a Deployment of each        *)
(*             program id returned code 0                                  *)
(*   accepted  history: the net stake by validator of the deliver_tx that  *)
(*             returned code 0 since the last begin_block                  *)
(*   paid      history: the sum of fees() of the deliver_tx that returned   *)
(*             code 0 since the last begin_block                           *)
(*   begun     history: the request of the last begin_block                *)
(*   commits   history: how many commit have returned                      *)
(*   promoted  history: how many RecordStore::commit have succeeded        *)
(*   mempool   the check_tx in flight on the mempool connection (SpecConc) *)
(*   app2, resp2  a second node, fed the same consensus hooks (SpecDet);   *)
(*             resp2 is the response of its last consensus hook            *)
(*   lock      who holds the Mutex of the validator set (SpecLock)         *)
(*   inflight  by connection, the hook that is running on it and the lock  *)
(*             operations it has still to do (SpecLock)                    *)
(***************************************************************************)
VARIABLES app, phase, resp, consumed, deployed, accepted, paid, begun, commits,
          promoted, mempool, app2, resp2, lock, inflight

vars == <<app, phase, resp, consumed, deployed, accepted, paid, begun, commits,
          promoted, mempool, app2, resp2, lock, inflight>>

history == <<consumed, deployed, accepted, paid, begun, commits, promoted>>

SerialNumbers == {S1, S2}

\* the connections whose hooks take the Mutex of the validator set
Connections == {"consensus", "mempool"}

\* nobody holds the Mutex
Free == "free"

\* no hook is running on a connection
NoHook == [hook |-> "none", tx |-> 0, ops |-> << >>]

\* before the first begin_block
NoRequest == [header |-> FALSE, proposer |-> None, last_commit_info |-> << >>,
              height |-> 0]

\* no check_tx is in flight; tx and seen are those of the last one
Idle == [pc |-> "idle", tx |-> 0, seen |-> {}]

Init ==
    /\ app = NewApp
    /\ phase = "START"
    /\ resp = NoResponse
    /\ consumed = [sn \in SerialNumbers |-> 0]
    /\ deployed = [p \in ProgramIds |-> 0]
    /\ accepted = [v \in ValidatorIds |-> 0]
    /\ paid = 0
    /\ begun = NoRequest
    /\ commits = 0
    /\ promoted = 0
    /\ mempool = Idle
    /\ app2 = NewApp
    /\ resp2 = NoResponse
    /\ lock = Free
    /\ inflight = [c \in Connections |-> NoHook]

\* how often sn occurs in a sequence
Count(seq, x) == Cardinality({i \in 1..Len(seq) : seq[i] = x})

RECURSIVE NetStake(_, _)
NetStake(updates, v) ==
    IF updates = << >> THEN 0
    ELSE (IF Head(updates).validator = v THEN Head(updates).amount ELSE 0)
         + NetStake(Tail(updates), v)

\* RequestBeginBlock: whether it has a header, the header's proposer and
\* height, and last_commit_info: << >> when absent, else <<its votes>>
BeginRequest(header, proposer, last_commit_info) ==
    [header |-> header, proposer |-> proposer,
     last_commit_info |-> last_commit_info, height |-> app.vs_height + 1]

\* the requests of begin_block; consensus numbers the blocks from 1
BeginRequests ==
    { BeginRequest(TRUE, "V1", << >>),
      BeginRequest(TRUE, "V2",
          << << Vote(TRUE, Validator("V1", 1)), Vote(FALSE, Validator("V2", 2)),
                Vote(TRUE, Validator("V2", 3)), Vote(TRUE, << >>),
                Vote(TRUE, Validator("V1", 0 - 1)) >> >>),
      BeginRequest(FALSE, None, << >>) }

\* what a hook does on the node
Runs(out, next_phase) ==
    /\ ~app.crashed
    /\ LET o == out
       IN  /\ app' = o.app
           /\ resp' = o.resp
    /\ phase' = next_phase
    /\ UNCHANGED mempool

\* what the same consensus hook does on the second node
Mirrors(out) ==
    /\ app2' = IF app2.crashed THEN app2 ELSE out.app
    /\ resp2' = IF app2.crashed THEN resp2 ELSE out.resp
    /\ UNCHANGED <<lock, inflight>>

Alone == UNCHANGED <<app2, resp2, lock, inflight>>

InitChainOn(state) ==
    /\ phase = "NEW"
    /\ Runs(init_chain(app, state), "IDLE")
    /\ UNCHANGED history

BeginBlockOn(request) ==
    /\ phase \in {"IDLE", "COMMITTED"}
    /\ app.vs_height < MaxHeight
    /\ Runs(begin_block(app, request), "OPEN")
    /\ accepted' = [v \in ValidatorIds |-> 0]
    /\ paid' = 0
    /\ begun' = request
    /\ UNCHANGED <<consumed, deployed, commits, promoted>>

DeliverTxOn(tx) ==
    /\ phase = "OPEN"
    /\ LET out == deliver_tx(app, tx)
           ok == out.resp.code = 0
       IN  /\ Runs(out, "OPEN")
           /\ consumed' = [sn \in SerialNumbers |->
                 consumed[sn] + IF ok THEN Count(record_serial_numbers(tx), sn)
                                ELSE 0]
           /\ deployed' = [p \in ProgramIds |->
                 deployed[p] + IF ok /\ tx.kind = "Deployment" /\ tx.program = p
                               THEN 1 ELSE 0]
           /\ accepted' = [v \in ValidatorIds |->
                 accepted[v] + IF ok /\ stake_updates(tx).ok
                               THEN NetStake(stake_updates(tx).updates, v)
                               ELSE 0]
           /\ paid' = paid + IF ok THEN fees(tx) ELSE 0
           /\ UNCHANGED <<begun, commits, promoted>>

EndBlockOn ==
    /\ phase = "OPEN"
    /\ Runs(end_block(app), "CLOSED")
    /\ UNCHANGED history

CommitFaultyOn(fault) ==
    /\ phase = "CLOSED"
    /\ LET out == commit_faulty(app, fault)
       IN  /\ Runs(out, "COMMITTED")
           /\ commits' = commits + IF out.resp.code = 0 THEN 1 ELSE 0
           /\ promoted' = promoted + IF fault.records THEN 0 ELSE 1
    /\ UNCHANGED <<consumed, deployed, accepted, paid, begun>>

CommitOn == CommitFaultyOn(NoFault)

\* the hooks of the mempool and query connections run in any phase, once
\* the engine has started with the info of its handshake
CheckTxOn(tx) ==
    /\ phase # "START"
    /\ Runs(check_tx(app, tx), phase)
    /\ UNCHANGED history

QueryOn(q) ==
    /\ phase # "START"
    /\ Runs(query(app, q), phase)
    /\ UNCHANGED history

InfoOn ==
    /\ Runs(info(app), IF phase = "START" THEN "NEW" ELSE phase)
    /\ UNCHANGED history

(***************************************************************************)
(* Spec: one node.                                                         *)
(***************************************************************************)
InitChain == \E state \in GenesisStates : InitChainOn(state) /\ Alone

BeginBlock == \E request \in BeginRequests : BeginBlockOn(request) /\ Alone

DeliverTx == \E i \in TxIds : DeliverTxOn(TxPool[i]) /\ Alone

EndBlock == EndBlockOn /\ Alone

Commit == CommitOn /\ Alone

\* the transactions that reach the mempool connection: mint, consume,
\* consume_two, fee, unstake, the Deployment that pays its fee with an
\* unknown program, and the undecodable bytes
CheckIds == {4, 5, 6, 7, 10, 13, 15}

CheckTx == \E i \in CheckIds : CheckTxOn(TxPool[i]) /\ Alone

Query == \E q \in Queries : QueryOn(q) /\ Alone

Info == InfoOn /\ Alone

Next ==
    \/ InitChain
    \/ BeginBlock
    \/ DeliverTx
    \/ EndBlock
    \/ Commit
    \/ CheckTx
    \/ Query
    \/ Info

Spec == Init /\ [][Next]_vars

(***************************************************************************)
(* SpecFault: one node whose disk may fail during a commit; the hooks of    *)
(* the consensus connection and the info of the handshake.                 *)
(***************************************************************************)
CommitFaulty == \E fault \in Faults : CommitFaultyOn(fault) /\ Alone

\* the transactions of the blocks of SpecFault: the Deployment of records,
\* mint, consume, stake and unstake
FaultIds == {1, 4, 5, 9, 10}

FaultDeliverTx == \E i \in FaultIds : DeliverTxOn(TxPool[i]) /\ Alone

NextFault ==
    \/ InitChain
    \/ BeginBlock
    \/ FaultDeliverTx
    \/ EndBlock
    \/ Commit
    \/ CommitFaulty
    \/ Info

SpecFault == Init /\ [][NextFault]_vars

(***************************************************************************)
(* SpecStore: one node whose record store may fail to read for a while:    *)
(* is_unspent returns Err until the store recovers.                        *)
(***************************************************************************)
\* the transactions of SpecStore: the Deployment of records, mint and
\* consume
StoreIds == {1, 4, 5}

StoreDeliverTx == \E i \in StoreIds : DeliverTxOn(TxPool[i]) /\ Alone

StoreCheckTx == \E i \in StoreIds : CheckTxOn(TxPool[i]) /\ Alone

\* the reads of the record store start or stop failing
RecordsFail ==
    /\ phase # "START" /\ ~app.crashed
    /\ app' = [app EXCEPT !.records_failing = ~@]
    /\ UNCHANGED <<phase, resp, history, mempool, app2, resp2, lock, inflight>>

NextStore ==
    \/ InitChain
    \/ BeginBlock
    \/ StoreDeliverTx
    \/ EndBlock
    \/ Commit
    \/ Info
    \/ StoreCheckTx
    \/ RecordsFail

SpecStore == Init /\ [][NextStore]_vars

(***************************************************************************)
(* SpecCrash: one node whose process may stop inside commit and is started *)
(* again; the model follows it up to the info of the new handshake.        *)
(***************************************************************************)
\* the transactions of the blocks of SpecCrash: the Deployment of records,
\* mint and consume
CrashIds == {1, 4, 5}

CrashDeliverTx == \E i \in CrashIds : DeliverTxOn(TxPool[i]) /\ Alone

CommitCrash ==
    \E point \in CrashPoints :
        /\ phase = "CLOSED"
        /\ Runs(commit_crashed(app, point), "CLOSED")
        /\ promoted' = promoted + 1
        /\ UNCHANGED <<consumed, deployed, accepted, paid, begun, commits>>
        /\ Alone

Restart ==
    /\ app.crashed
    /\ resp.hook = "commit"
    /\ app' = restart(app)
    /\ phase' = "RESTARTED"
    /\ UNCHANGED <<resp, history, mempool>>
    /\ Alone

NextCrash ==
    \/ InitChain
    \/ BeginBlock
    \/ CrashDeliverTx
    \/ EndBlock
    \/ Commit
    \/ CommitCrash
    \/ Restart
    \/ Info

SpecCrash == Init /\ [][NextCrash]_vars

(***************************************************************************)
(* SpecLock: one node whose consensus and mempool connections run their    *)
(* hooks at the same time, each on its own thread, taking and dropping the *)
(* Mutex of the validator set as the code does.  A hook starts, does its   *)
(* lock operations one by one and returns; what it does to the stores and  *)
(* its response take effect when it returns.  No request makes a hook      *)
(* panic.  A thread that can run does run, and a thread that waits for a   *)
(* Mutex that is dropped again and again gets it.                          *)
(***************************************************************************)
\* the transactions of SpecLock: the Deployment of records (validated
\* without the lock) and the fee Execution of credits
LockIds == {1, 7}

\* the transaction that reaches the mempool connection in SpecLock: fee
LockCheckIds == {7}

\* a hook starts on a connection
Starts(c, hook, tx, ops) ==
    /\ ~app.crashed
    /\ inflight[c] = NoHook
    /\ inflight' = [inflight EXCEPT ![c] = [hook |-> hook, tx |-> tx,
                                            ops |-> ops]]
    /\ UNCHANGED <<app, phase, resp, history, mempool, app2, resp2, lock>>

\* the requests that do not make init_chain and begin_block panic
SoundGenesis == {state \in GenesisStates :
                    init_chain(app, state).resp.code # Aborted}

SoundRequests == {request \in BeginRequests :
                     begin_block(app, request).resp.code # Aborted}

\* the request of SpecLock, the one with votes: begin_block takes the lock
\* in the same way for every request with a header
LockRequests == {request \in SoundRequests :
                    request.last_commit_info # << >>}

LockStartInitChain ==
    /\ phase = "NEW"
    /\ Starts("consensus", "init_chain", 0, init_chain_locks)

\* blocks opened in SpecLock
LockHeight == MaxHeight - 1

LockStartBeginBlock ==
    /\ phase \in {"IDLE", "COMMITTED"}
    /\ app.vs_height < LockHeight
    /\ Starts("consensus", "begin_block", 0, begin_block_locks)

LockStartDeliverTx ==
    \E i \in LockIds :
        /\ phase = "OPEN"
        /\ Starts("consensus", "deliver_tx", i, deliver_tx_locks(app, TxPool[i]))

LockStartEndBlock ==
    /\ phase = "OPEN"
    /\ Starts("consensus", "end_block", 0, end_block_locks)

LockStartCommit ==
    /\ phase = "CLOSED"
    /\ Starts("consensus", "commit", 0, commit_locks)

LockStartCheckTx ==
    \E i \in LockCheckIds :
        /\ phase # "START"
        /\ Starts("mempool", "check_tx", i, check_tx_locks(app, TxPool[i]))

\* self.validators.lock(): the thread goes on once the Mutex is free
Acquire(c) ==
    /\ inflight[c].ops # << >>
    /\ Head(inflight[c].ops) = "lock"
    /\ lock = Free
    /\ lock' = c
    /\ inflight' = [inflight EXCEPT ![c].ops = Tail(@)]
    /\ UNCHANGED <<app, phase, resp, history, mempool, app2, resp2>>

\* the guard is dropped
Release(c) ==
    /\ inflight[c].ops # << >>
    /\ Head(inflight[c].ops) = "unlock"
    /\ lock = c
    /\ lock' = Free
    /\ inflight' = [inflight EXCEPT ![c].ops = Tail(@)]
    /\ UNCHANGED <<app, phase, resp, history, mempool, app2, resp2>>

\* the hook returns
Return(c) ==
    /\ inflight[c].hook # "none"
    /\ inflight[c].ops = << >>
    /\ LET hook == inflight[c].hook
           tx == TxPool[inflight[c].tx]
       IN  \/ hook = "init_chain"
              /\ \E state \in SoundGenesis : InitChainOn(state)
           \/ hook = "begin_block"
              /\ \E request \in LockRequests : BeginBlockOn(request)
           \/ hook = "deliver_tx" /\ DeliverTxOn(tx)
           \/ hook = "end_block" /\ EndBlockOn
           \/ hook = "commit" /\ CommitOn
           \/ hook = "check_tx" /\ CheckTxOn(tx)
    /\ inflight' = [inflight EXCEPT ![c] = NoHook]
    /\ UNCHANGED <<app2, resp2, lock>>

NextLock ==
    \/ Info
    \/ LockStartInitChain
    \/ LockStartBeginBlock
    \/ LockStartDeliverTx
    \/ LockStartEndBlock
    \/ LockStartCommit
    \/ LockStartCheckTx
    \/ \E c \in Connections : Acquire(c)
    \/ \E c \in Connections : Release(c)
    \/ \E c \in Connections : Return(c)

\* a thread does its next step
Step(c) == Acquire(c) \/ Release(c) \/ Return(c)

\* the scheduling of the threads and of the Mutex
LockFairness == \A c \in Connections : SF_vars(Step(c))

SpecLock == Init /\ [][NextLock]_vars /\ LockFairness

(***************************************************************************)
(* SpecConc: one node whose mempool connection runs check_tx step by step  *)
(* (the duplicate check, the unspent check, the validation) while the      *)
(* consensus connection runs its hooks in between.  mempool.seen is the    *)
(* pending-spend set when the check_tx started.                            *)
(***************************************************************************)
\* the transactions of the blocks of SpecConc: the Deployment of records,
\* mint, consume and fee
ConcIds == {1, 4, 5, 7}

\* the transactions that reach the mempool connection in SpecConc: consume,
\* consume_two and fee
ConcCheckIds == {5, 6, 7}

ConcDeliverTx == \E i \in ConcIds : DeliverTxOn(TxPool[i]) /\ Alone

\* check_tx starts: it decodes the transaction and checks its inputs for
\* duplicates
CheckStart ==
    \E i \in ConcCheckIds :
        /\ phase # "START" /\ ~app.crashed
        /\ mempool.pc = "idle"
        /\ deserialize(TxPool[i])
        /\ IF check_no_duplicate_records(TxPool[i])
           THEN /\ mempool' = [pc |-> "unspent", tx |-> i,
                               seen |-> app.pending_spend]
                /\ UNCHANGED resp
           ELSE /\ mempool' = [pc |-> "idle", tx |-> i,
                               seen |-> app.pending_spend]
                /\ resp' = Rejected("check_tx", i, "duplicate")
        /\ UNCHANGED <<app, phase, history, app2, resp2, lock, inflight>>

\* check_tx asks the record store whether the inputs are unspent
CheckUnspent ==
    /\ mempool.pc = "unspent" /\ ~app.crashed
    /\ IF check_inputs_are_unspent(app, TxPool[mempool.tx])
       THEN /\ mempool' = [mempool EXCEPT !.pc = "validate"]
            /\ UNCHANGED resp
       ELSE /\ mempool' = [mempool EXCEPT !.pc = "idle"]
            /\ resp' = Rejected("check_tx", mempool.tx,
                                "unknown or already spent")
    /\ UNCHANGED <<app, phase, history, app2, resp2, lock, inflight>>

\* check_tx validates the transaction and returns
CheckValidate ==
    /\ mempool.pc = "validate" /\ ~app.crashed
    /\ mempool' = [mempool EXCEPT !.pc = "idle"]
    /\ resp' = IF validate_transaction(app, TxPool[mempool.tx])
               THEN Response("check_tx", mempool.tx, 0)
               ELSE Rejected("check_tx", mempool.tx, "verification failed")
    /\ UNCHANGED <<app, phase, history, app2, resp2, lock, inflight>>

NextConc ==
    \/ InitChain
    \/ BeginBlock
    \/ ConcDeliverTx
    \/ EndBlock
    \/ Commit
    \/ Info
    \/ CheckStart
    \/ CheckUnspent
    \/ CheckValidate

SpecConc == Init /\ [][NextConc]_vars

(***************************************************************************)
(* SpecDet: two nodes.  The consensus engine gives both the same consensus *)
(* hooks in the same order; the hooks of the mempool and query connections *)
(* reach each node on its own.  Consensus starts once the second node has  *)
(* had the info of its handshake too.  resp and resp2 are the responses of *)
(* the last consensus hook of each node.                                   *)
(***************************************************************************)
Started2 == app2.height_file # Absent

\* the transactions that the mempool connections submit in SpecDet: mint,
\* consume and fee
DetCheckIds == {4, 5, 7}

Rest1 == UNCHANGED <<app, phase, resp, history, mempool, lock, inflight>>

DetInitChain ==
    \E state \in GenesisStates :
        Started2 /\ InitChainOn(state) /\ Mirrors(init_chain(app2, state))

DetBeginBlock ==
    \E request \in BeginRequests :
        Started2 /\ BeginBlockOn(request) /\ Mirrors(begin_block(app2, request))

DetDeliverTx ==
    \E i \in TxIds :
        Started2 /\ DeliverTxOn(TxPool[i]) /\ Mirrors(deliver_tx(app2, TxPool[i]))

DetEndBlock == Started2 /\ EndBlockOn /\ Mirrors(end_block(app2))

DetCommit == Started2 /\ CommitOn /\ Mirrors(commit(app2))

Rest2 == UNCHANGED <<phase, resp, history, mempool, app2, resp2, lock, inflight>>

DetCheckTx ==
    \E i \in DetCheckIds :
        /\ phase # "START" /\ ~app.crashed
        /\ app' = check_tx(app, TxPool[i]).app
        /\ Rest2

DetQuery ==
    \E q \in Queries :
        /\ phase # "START" /\ ~app.crashed
        /\ app' = query(app, q).app
        /\ Rest2

DetInfo ==
    /\ ~app.crashed
    /\ app' = info(app).app
    /\ phase' = IF phase = "START" THEN "NEW" ELSE phase
    /\ UNCHANGED <<resp, history, mempool, app2, resp2, lock, inflight>>

CheckTx2 ==
    \E i \in DetCheckIds :
        /\ Started2 /\ ~app2.crashed
        /\ app2' = check_tx(app2, TxPool[i]).app
        /\ UNCHANGED resp2 /\ Rest1

Query2 ==
    \E q \in Queries :
        /\ Started2 /\ ~app2.crashed
        /\ app2' = query(app2, q).app
        /\ UNCHANGED resp2 /\ Rest1

Info2 ==
    /\ ~app2.crashed
    /\ app2' = info(app2).app
    /\ UNCHANGED resp2 /\ Rest1

NextDet ==
    \/ DetInitChain
    \/ DetBeginBlock
    \/ DetDeliverTx
    \/ DetEndBlock
    \/ DetCommit
    \/ DetCheckTx
    \/ DetQuery
    \/ DetInfo
    \/ CheckTx2
    \/ Query2
    \/ Info2

SpecDet == Init /\ [][NextDet]_vars

(***************************************************************************)
(* Properties.                                                             *)
(***************************************************************************)
TxHooks == {"check_tx", "deliver_tx"}

ConsensusHooks == {"init_chain", "begin_block", "deliver_tx", "end_block", "commit"}

\* the transaction of a response of check_tx or deliver_tx
TxOf(r) == TxPool[r.tx]

\* the serial numbers a transaction consumes
Inputs(tx) ==
    {record_serial_numbers(tx)[i] : i \in 1..Len(record_serial_numbers(tx))}

\* C1: no serial number is consumed more than once by the deliver_tx that
\* returned code 0: not twice in one transaction, not by two deliveries of a
\* block, not by deliveries of different blocks.
C1_NoDoubleSpend == \A sn \in SerialNumbers : consumed[sn] <= 1

\* C1 witness: a record consumed in an earlier block (its spend is
\* committed) is the input of a deliver_tx that has just been rejected.
C1_Witness ==
    /\ resp.hook = "deliver_tx" /\ resp.code = 1
    /\ ~HasDuplicates(record_serial_numbers(TxOf(resp)))
    /\ \E sn \in Inputs(TxOf(resp)) : sn \in app.spent /\ consumed[sn] = 1

\* C2: a deliver_tx that returns code 1 leaves the record store, the program
\* store and the validator set as they were.
C2_StagingIsolation ==
    [][(resp'.hook = "deliver_tx" /\ resp'.code = 1)
        => (RS(app') = RS(app) /\ PS(app') = PS(app) /\ VS(app') = VS(app))]_vars

\* C3: a deliver_tx that directly follows an accepted check_tx of the same
\* transaction (no hook in between) returns code 0.
C3_CheckDeliverConsistency ==
    [][(/\ resp.hook = "check_tx" /\ resp.code = 0
        /\ resp'.hook = "deliver_tx" /\ resp'.tx = resp.tx)
        => resp'.code = 0]_vars

\* C4: a transaction that check_tx or deliver_tx accepts consumes only
\* records the record store holds (added by a transaction, by genesis or as
\* a reward).
C4_NoPhantomRecords ==
    (resp.hook \in TxHooks /\ resp.code = 0 /\ phase \notin {"START", "NEW"})
        => \A sn \in Inputs(TxOf(resp)) :
              CommitmentOf(sn) \in app.records \cup app.pending_add

\* C5: at most one deliver_tx of a Deployment of a program id returns code
\* 0; a Deployment of an id deployed before is rejected, and a stored
\* program is never replaced.
C5_DeploymentUniqueness ==
    [][/\ \A p \in ProgramIds : deployed'[p] <= 1
       /\ \A p \in ProgramIds :
             app.programs[p] # 0 => app'.programs[p] = app.programs[p]
       /\ (/\ resp'.hook = "deliver_tx"
           /\ TxOf(resp').kind = "Deployment"
           /\ deployed[TxOf(resp').program] >= 1) => resp'.code = 1]_vars

\* C5 witness: in a later block than the one that deployed the program with
\* its second set of keys, a Deployment of the same id has been rejected.
C5_Witness ==
    /\ resp.hook = "deliver_tx" /\ resp.code = 1
    /\ TxOf(resp).kind = "Deployment"
    /\ deployed[TxOf(resp).program] = 1
    /\ app.programs[TxOf(resp).program] = 2
    /\ TxOf(resp).verifying_keys = 1
    /\ app.height_file >= 1

\* C6: when commit has returned, pending-add and pending-spend are empty.
C6_StagingEmptyAfterCommit ==
    (phase = "COMMITTED" /\ ~app.crashed)
        => (app.pending_add = {} /\ app.pending_spend = {})

\* the state of a node that the consensus hooks determine
Replicated(a) ==
    <<RS(a), PS(a), VS(a), read_or_create(a.height_file), a.crashed>>

AcceptedUpdates ==
    {[pub_key |-> v, voting_power |-> app.validators[v] + accepted[v]] :
        v \in {w \in ValidatorIds : accepted[w] # 0}}

\* C8: the validator updates of end_block are those of the stake and
\* unstake executions whose deliver_tx returned code 0 in the block.
C8_ValidatorUpdateCompleteness ==
    resp.hook = "end_block" => resp.updates = AcceptedUpdates

\* C9: check_tx and deliver_tx reject a transaction in which a serial number
\* occurs twice, and the rejection changes nothing: the record is as unspent
\* as it was.
C9_DuplicateInputRejected ==
    [][(resp'.hook \in TxHooks
        /\ HasDuplicates(record_serial_numbers(TxOf(resp'))))
        => (resp'.code = 1 /\ app' = app)]_vars

\* C9 witness: deliver_tx has rejected consume_two(R, R) although its
\* program is deployed and R is unspent; a consume(R) is accepted.
C9_Witness ==
    /\ resp.hook = "deliver_tx" /\ resp.code = 1
    /\ HasDuplicates(record_serial_numbers(TxOf(resp)))
    /\ validate_transaction(app, TxOf(resp))
    /\ \A sn \in Inputs(TxOf(resp)) : records_is_unspent(app, sn)
    /\ check_tx(app, TxPool[5]).resp.code = 0

Programs(tx) ==
    {transitions(tx)[i].program_id : i \in 1..Len(transitions(tx))}

\* what a hook may not change when it rejects: the three stores and the
\* height file
Stores(a) == <<RS(a), PS(a), VS(a), a.height_file>>

\* C11: check_tx and deliver_tx return code 1 for a transaction with a
\* transition (of an Execution, or the fee transition of a Deployment) whose
\* program the program store does not hold, and change no store.
C11_UnknownProgramRejected ==
    [][(/\ resp'.hook \in TxHooks
        /\ deserialize(TxOf(resp'))
        /\ \E p \in Programs(TxOf(resp')) : ~programs_exists(app, p))
        => (resp'.code = 1 /\ Stores(app') = Stores(app))]_vars

\* C11 witness: deliver_tx has rejected a Deployment of a new program whose
\* fee transition spends an unspent record and names a program that is not
\* in the store.
C11_Witness ==
    /\ resp.hook = "deliver_tx" /\ resp.code = 1
    /\ resp.log = "verification failed"
    /\ TxOf(resp).kind = "Deployment"
    /\ ~programs_exists(app, TxOf(resp).program)
    /\ verify_deployment(TxOf(resp))
    /\ \E p \in Programs(TxOf(resp)) : ~programs_exists(app, p)
    /\ app.records # {}

RECURSIVE SumGates(_)
\* the credits of a list of reward records
SumGates(rewards) ==
    IF rewards = << >> THEN 0
    ELSE Head(rewards).gates + SumGates(Tail(rewards))

\* C12: the reward records of a commit are one for the proposer of the block
\* and one for each voter of the previous block, their credits add up to
\* the fees() of the transactions delivered with code 0 in the block plus
\* the coinbase, and the commit leaves the fee pot at zero.
C12_RewardMinting ==
    [][(resp'.hook = "commit" /\ resp'.code = 0)
        => (/\ {resp'.rewards[k].owner : k \in 1..Len(resp'.rewards)}
                 = {app.proposer} \cup DOMAIN app.voters
            /\ Len(resp'.rewards) = 1 + Cardinality(DOMAIN app.voters)
            /\ SumGates(resp'.rewards) = paid + Coinbase
            /\ app'.fees = 0)]_vars

\* C13: when init_chain has returned, the records of the genesis state are
\* committed and unspent in the record store with nothing left in staging,
\* and the validator set is that of the genesis state; after the first
\* commit info reports last_block_height = 1.
C13_GenesisLoad ==
    /\ (resp.hook = "init_chain" /\ resp.code = 0)
          => (/\ app.records = {G}
              /\ app.pending_add = {} /\ app.pending_spend = {}
              /\ app.spent = {}
              /\ app.validators = [v \in ValidatorIds |->
                                      IF v = "V1" THEN 1 ELSE 0])
    /\ (resp.hook = "info" /\ phase = "COMMITTED" /\ app.vs_height = 1)
          => resp.height = 1

\* C14: check_tx and query leave the record store (committed and staged),
\* the program store, the validator set and the height as they were, in
\* every state of the block and whatever they answer; a second check_tx of
\* the transaction gets the same answer.
C14_CheckAndQueryReadOnly ==
    [][(resp'.hook \in {"check_tx", "query"})
        => (/\ Stores(app') = Stores(app)
            /\ (resp'.hook = "check_tx" /\ resp'.code # Aborted)
                  => check_tx(app', TxOf(resp')) = [app |-> app', resp |-> resp'])]_vars

\* C14 witness: check_tx has accepted a transaction after end_block, while
\* the block's spends are staged and its fees are in the pot.
C14_Witness ==
    /\ resp.hook = "check_tx" /\ resp.code = 0
    /\ phase = "CLOSED"
    /\ app.pending_spend # {}
    /\ app.fees > 0
    /\ Inputs(TxOf(resp)) # {}

\* C15: check_tx, deliver_tx and query always return a response, and the
\* process keeps running; a request whose bytes do not decode gets code 1
\* with a message and changes no store.
C15_MalformedRejected ==
    [][(resp'.hook \in TxHooks \cup {"query"})
        => (/\ resp'.code \in {0, 1}
            /\ ~app'.crashed
            /\ resp'.code = 1 => resp'.log # ""
            /\ (resp'.hook \in TxHooks /\ ~deserialize(TxOf(resp')))
                  => (resp'.code = 1 /\ Stores(app') = Stores(app)))]_vars

\* C16: when the record store fails to commit inside the commit hook, the
\* process aborts: no ResponseCommit is returned, the height is not
\* incremented and no reward record is added.
C16_RecordCommitFailureFatal ==
    [][(resp'.hook = "commit" /\ "records" \in resp'.errors)
        => (/\ resp'.code = Aborted /\ app'.crashed
            /\ app'.height_file = app.height_file
            /\ RS(app') = RS(app))]_vars

\* C17: when the validator set cannot be persisted inside the commit hook
\* (and the record store commits), commit returns normally, the height is
\* one more, the staged spends and adds are promoted, and the validator set
\* in memory is the one block_rewards left: fee pot reset, proposer and
\* voters kept, every validator at the power its pending updates give it.
C17_ValidatorPersistFailureTolerated ==
    [][(resp'.hook = "commit" /\ resp'.errors = {"validators"})
        => (/\ resp'.code = 0 /\ ~app'.crashed
            /\ app'.height_file = app.height_file + 1
            /\ app.pending_spend \subseteq app'.spent
            /\ app.pending_add \subseteq app'.records
            /\ app.spent \subseteq app'.spent /\ app.records \subseteq app'.records
            /\ app'.fees = 0
            /\ <<app'.proposer, app'.voters, app'.vs_height>>
                  = <<app.proposer, app.voters, app.vs_height>>
            /\ \A v \in ValidatorIds :
                  app'.validators[v] + app'.pending[v]
                      = app.validators[v] + app.pending[v])]_vars

\* C17 witness: a commit that could not persist the validator set has
\* returned; it promoted a spend, and the power in memory is not the one on
\* the disk.
C17_Witness ==
    /\ resp.hook = "commit" /\ resp.code = 0
    /\ resp.errors = {"validators"}
    /\ app.spent # {}
    /\ app.validators # app.validators_file
    /\ app.height_file = 1

\* C18: a deliver_tx response carries exactly one event, of type "app" with
\* the indexed attribute tx_id = the transaction's id, when its code is 0
\* and no event otherwise; a check_tx response never carries one.
C18_IndexEvent ==
    /\ (resp.hook = "deliver_tx" /\ resp.code = 0)
          => resp.events = << [type |-> "app", key |-> "tx_id",
                               value |-> resp.tx, index |-> TRUE] >>
    /\ (resp.hook = "deliver_tx" /\ resp.code # 0) => resp.events = << >>
    /\ resp.hook = "check_tx" => resp.events = << >>

\* C18 witness: deliver_tx has accepted an Execution that spends a record,
\* in the second block.
C18_Witness ==
    /\ resp.hook = "deliver_tx" /\ resp.code = 0
    /\ Len(resp.events) = 1
    /\ TxOf(resp).kind = "Execution"
    /\ Inputs(TxOf(resp)) \subseteq app.pending_spend
    /\ app.height_file = 1

\* C19: deliver_tx runs the duplicate check, the unspent check,
\* validate_transaction, update_validators, the spends, the adds and
\* store_program in this order and ends with code 1 at the first that
\* fails: a failed validation step leaves the state as it was, a failed
\* spend leaves pending-add and the program store as they were, a failed add
\* leaves the program store as it was.
C19_DeliverOrder ==
    [][(resp'.hook = "deliver_tx" /\ deserialize(TxOf(resp')))
        => LET tx == TxOf(resp')
               updated == update_validators(app, tx)
               spent == spend_input_records(updated, tx)
               added == add_output_records(spent.app, tx)
               stored == store_program(added.app, tx)
           IN  IF ~check_no_duplicate_records(tx)
               THEN resp'.code = 1 /\ resp'.log = "duplicate" /\ app' = app
               ELSE IF ~check_inputs_are_unspent(app, tx)
               THEN /\ resp'.code = 1 /\ app' = app
                    /\ resp'.log = "unknown or already spent"
               ELSE IF ~validate_transaction(app, tx)
               THEN /\ resp'.code = 1 /\ app' = app
                    /\ resp'.log = "verification failed"
               ELSE IF ~spent.ok
               THEN /\ resp'.code = 1 /\ resp'.log = "spend failed"
                    /\ VS(app') = VS(updated)
                    /\ app'.pending_add = app.pending_add
                    /\ PS(app') = PS(app)
               ELSE IF ~added.ok
               THEN /\ resp'.code = 1 /\ resp'.log = "add failed"
                    /\ VS(app') = VS(updated)
                    /\ app'.pending_spend = spent.app.pending_spend
                    /\ PS(app') = PS(app)
               ELSE IF ~stored.ok
               THEN resp'.code = 1 /\ resp'.log = "store failed"
               ELSE resp'.code = 0 /\ app' = stored.app]_vars

\* C19 witness: deliver_tx has ended at the adds: the fee is collected and
\* the spends are staged, the program is not stored.
C19_Witness ==
    /\ resp.hook = "deliver_tx" /\ resp.code = 1
    /\ resp.log = "add failed"
    /\ TxOf(resp).kind = "Deployment"
    /\ Inputs(TxOf(resp)) \subseteq app.pending_spend
    /\ app.fees > 0
    /\ ~programs_exists(app, TxOf(resp).program)

\* C20: when the duplicate check, the unspent check and
\* validate_transaction pass for a transaction, deliver_tx returns code 0:
\* none of its spends, of its adds, nor store_program fails.
C20_ValidationMakesInfallible ==
    [][(/\ resp'.hook = "deliver_tx"
        /\ deserialize(TxOf(resp'))
        /\ validation(app, TxOf(resp')) = "")
        => (/\ resp'.log \notin {"spend failed", "add failed", "store failed"}
            /\ resp'.code = 0)]_vars

\* the commitments of the reward records that a commit response returned
Minted(r) == {r.rewards[k].commitment : k \in 1..Len(r.rewards)}

\* C21: when the commit of block N has returned, every record of
\* block_rewards() is in the committed record store, unspent, and none is
\* waiting in pending-add for the commit of block N+1.
C21_RewardsCommittedAtHeight ==
    (resp.hook = "commit" /\ resp.code = 0)
        => /\ Minted(resp) \subseteq app.records
           /\ Minted(resp) \cap app.pending_add = {}

\* the inputs of tx are records that deliveries of the open block added:
\* staged in pending-add, not committed, their serial numbers unspent
StagedInputs(a, tx) ==
    /\ Inputs(tx) # {}
    /\ \A sn \in Inputs(tx) :
          /\ CommitmentOf(sn) \in a.pending_add \ a.records
          /\ sn \notin a.spent \cup a.pending_spend

\* nothing but its inputs can make deliver_tx reject tx: no repeated input,
\* the proofs verify, no output commitment is held or repeated
Sound(a, tx) ==
    /\ ~HasDuplicates(record_serial_numbers(tx))
    /\ validate_transaction(a, tx)
    /\ ~HasDuplicates(output_records(tx))
    /\ \A i \in 1..Len(output_records(tx)) :
          output_records(tx)[i] \notin a.records \cup a.pending_add

\* C22: within an open block a deliver_tx sees the staging of the deliveries
\* before it: a transaction consuming records that this block added is
\* accepted before any commit, and one consuming a serial number that this
\* block spent is rejected.
C22_SameBlockStaging ==
    [][(resp'.hook = "deliver_tx" /\ resp'.code # Aborted /\ phase = "OPEN")
          => LET tx == TxOf(resp')
             IN  /\ (StagedInputs(app, tx) /\ Sound(app, tx))
                       => /\ resp'.code = 0
                          /\ Inputs(tx) \subseteq app'.pending_spend
                 /\ (Inputs(tx) \cap app.pending_spend # {})
                       => /\ resp'.code = 1
                          /\ RS(app') = RS(app)]_vars

\* in one block: mint adds C1, consume spends it, a second consume of it is
\* rejected; nothing is committed yet
C22_Witness ==
    /\ phase = "OPEN"
    /\ commits = 0
    /\ resp.hook = "deliver_tx" /\ resp.code = 1
    /\ resp.log = "unknown or already spent"
    /\ S1 \in Inputs(TxOf(resp))
    /\ consumed[S1] = 1
    /\ S1 \in app.pending_spend
    /\ CommitmentOf(S1) \in app.pending_add

\* the addresses of the votes of a request that signed the last block, carry
\* a validator and have no negative power
Signers(request) ==
    LET votes == VotesOf(request.last_commit_info)
    IN  { votes[i].validator[1].address :
            i \in { j \in 1..Len(votes) :
                      /\ votes[j].signed_last_block
                      /\ votes[j].validator # << >>
                      /\ votes[j].validator[1].power >= 0 } }

\* the owners of the reward records of a commit response after the first
VoterRewards(r) == {r.rewards[k].owner : k \in 2..Len(r.rewards)}

\* C23: the rewards of the commit of block N go to the proposer of block
\* N's begin_block and to the voters of that begin_block's last_commit_info,
\* one record each; every begin_block replaces the proposer and the voters
\* of the block before.
C23_RewardLag ==
    [][/\ (resp'.hook = "begin_block" /\ resp'.code = 0)
             => /\ app'.proposer = begun'.proposer
                /\ DOMAIN app'.voters = Signers(begun')
       /\ (resp'.hook = "commit" /\ resp'.code = 0)
             => /\ Len(resp'.rewards) = 1 + Cardinality(Signers(begun))
                /\ resp'.rewards[1].owner = begun.proposer
                /\ VoterRewards(resp') = Signers(begun)]_vars

\* the second block, proposed by V1 without last_commit_info, rewards V1
\* alone although the first block rewarded voters
C23_Witness ==
    /\ resp.hook = "commit" /\ resp.code = 0
    /\ commits = 2
    /\ RewardCommitment(1, 2) \in app.records
    /\ begun.proposer = "V1" /\ begun.last_commit_info = << >>
    /\ Len(resp.rewards) = 1
    /\ resp.rewards[1].owner = "V1"

\* the (address, power) pairs of the votes of a request that signed the last
\* block, carry a validator and have no negative power
SignedPairs(request) ==
    LET votes == VotesOf(request.last_commit_info)
    IN  { <<votes[i].validator[1].address, votes[i].validator[1].power>> :
            i \in { j \in 1..Len(votes) :
                      /\ votes[j].signed_last_block
                      /\ votes[j].validator # << >>
                      /\ votes[j].validator[1].power >= 0 } }

\* C24: the voter map that begin_block hands to the validator set holds
\* exactly the (address, power) pairs of the votes that signed the last
\* block, carry a validator and have power >= 0; the other votes are skipped
\* without aborting, an absent last_commit_info gives the empty map, and a
\* request without header aborts before the validator set is touched.
C24_VoterMap ==
    [][(resp'.hook = "begin_block")
          => /\ begun'.header
                   => /\ resp'.code = 0
                      /\ {<<v, app'.voters[v]>> : v \in DOMAIN app'.voters}
                            = SignedPairs(begun')
                      /\ begun'.last_commit_info = << >>
                            => app'.voters = NoVotes
             /\ ~begun'.header
                   => /\ resp'.code = Aborted
                      /\ app'.crashed
                      /\ VS(app') = VS(app)]_vars

\* a begin_block whose last_commit_info holds an unsigned vote, a vote
\* without validator and a vote of negative power has returned
C24_Witness ==
    /\ resp.hook = "begin_block" /\ resp.code = 0
    /\ LET votes == VotesOf(begun.last_commit_info)
       IN  /\ \E i \in 1..Len(votes) : ~votes[i].signed_last_block
           /\ \E i \in 1..Len(votes) : votes[i].validator = << >>
           /\ \E i \in 1..Len(votes) :
                 /\ votes[i].validator # << >>
                 /\ votes[i].validator[1].power < 0
    /\ DOMAIN app.voters = {"V1", "V2"}
    /\ app.voters["V1"] = 1 /\ app.voters["V2"] = 3

CheckReturns == mempool.pc # "idle" /\ mempool'.pc = "idle"

C27_OnlyCommitWritesHeight ==
    [][app'.height_file # app.height_file => resp'.hook = "commit"]_vars

\* C28: what a deliver_tx adds to the fee pot is the signed fees() of its
\* transaction or nothing, and a transaction whose fees() is negative adds
\* nothing: the pot never grows by a negative fee read as unsigned.
C28_NoNegativeFeeWrap ==
    [][(resp'.hook = "deliver_tx" /\ resp'.code # Aborted /\ phase = "OPEN")
          => LET tx == TxOf(resp')
                 added == app'.fees - app.fees
             IN  /\ added \in {0, fees(tx)}
                 /\ fees(tx) < 0 => added = 0]_vars

\* C29: while is_unspent returns an error, check_tx and deliver_tx reject
\* every transaction that has inputs with code 1, and deliver_tx stages
\* nothing and collects no fee.
C29_UnspentCheckFailsClosed ==
    [][(/\ resp'.hook \in TxHooks /\ resp'.code # Aborted
        /\ app.records_failing /\ app'.records_failing
        /\ Inputs(TxOf(resp')) # {})
          => /\ resp'.code = 1
             /\ RS(app') = RS(app)
             /\ app'.fees = app.fees]_vars

\* C30: when the process stopped inside commit and was started again, the
\* height that info reports and the committed record store describe the
\* same block: the store is promoted as often as the height says, and the
\* proposer's reward record of every block up to that height is in it.
C30_CommitCrashConsistent ==
    (phase = "RESTARTED" /\ resp.hook = "info")
        => /\ resp.height = promoted
           /\ \A h \in 1..resp.height :
                 RewardCommitment(h, 1) \in app.records

\* a hook is running on a connection
Running(c) == inflight[c].hook # "none"

\* a thread is about to take the Mutex
Waiting(c) == inflight[c].ops # << >> /\ Head(inflight[c].ops) = "lock"

=============================================================================
